---- MODULE Spec2Model ----
(***************************************************************************)
(* List Document Model of logootish-js (src/listmodel/index.ts).           *)
(*                                                                         *)
(* The model follows index.ts statement by statement.  The collaborators   *)
(* that index.ts imports (LogootPosition, AnchorLogootNode, DBst,          *)
(* sliceNodesIntoRanges) are modelled from the specification text.         *)
(*                                                                         *)
(* A node reference of the program is a node id here: the BST is the       *)
(* in-order sequence of node records, and every array of nodes of the      *)
(* program (skip_ranges, nc_left, conflict_with, ...) is a sequence or a   *)
(* set of ids that is resolved against the current BST.  Id 0 is the       *)
(* DUMMY node, which is never part of the BST.                             *)
(***************************************************************************)
EXTENDS Integers, Sequences, FiniteSets, TLC

\* ------------------------------------------------------------------------
\* Bounds of the model
\* ------------------------------------------------------------------------
MaxOps == 3        \* operations applied to one replica
NumBranches == 2   \* branch keys 1..NumBranches, rank = the number
MaxLen == 2        \* length argument of insertLogoot / removeLogoot
MaxClk == 1        \* clk argument
MaxAtom == 1       \* lowest-level atom of a position passed as argument
MaxConvOps == 2    \* operations exchanged between the two replicas
MaxLocalOps == 2   \* operations applied before a local insertion
MaxSetUpOps == 1   \* operations both replicas apply before a concurrent pair

\* ------------------------------------------------------------------------
\* LogootPosition: a sequence of levels <<atom, branch>>
\* ------------------------------------------------------------------------
\* a function on 1..n as a sequence value
AsSeq(f) == SubSeq(f, 1, Len(f))

\* F applied to the value of e: the statements of a function body run one
\* after the other, each on the result of the one before
Bind(e, F(_)) == CHOOSE r \in {F(v) : v \in {e}} : TRUE

None == <<>>
DocStart == << <<0 - 1000, 0>> >>
DocEnd == << <<1000, 0>> >>

LevelCmp(x, y) ==
  IF x[1] < y[1] THEN 0 - 1
  ELSE IF x[1] > y[1] THEN 1
  ELSE IF x[2] < y[2] THEN 0 - 1
  ELSE IF x[2] > y[2] THEN 1
  ELSE 0

\* Level by level.  A position that extends another sorts before it:
\* fillSkipRanges (line 302) resumes a run at the level atom of a nested
\* node's logoot_end, so a node nested under p lies between p - 1 and p.
RECURSIVE CmpFrom(_, _, _)
CmpFrom(a, b, i) ==
  IF i > Len(a) THEN (IF i > Len(b) THEN 0 ELSE 1)
  ELSE IF i > Len(b) THEN 0 - 1
  ELSE LET c == LevelCmp(a[i], b[i])
       IN IF c # 0 THEN c ELSE CmpFrom(a, b, i + 1)

Cmp(a, b) == CmpFrom(a, b, 1)
Lt(a, b) == Cmp(a, b) < 0
Lteq(a, b) == Cmp(a, b) <= 0
Gt(a, b) == Cmp(a, b) > 0
Gteq(a, b) == Cmp(a, b) >= 0
Eq(a, b) == Cmp(a, b) = 0

Levels(p) == Len(p) - 1
AtomAt(p, level) == IF level + 1 <= Len(p) THEN p[level + 1][1] ELSE 0
OffsetLowest(p, k) == [p EXCEPT ![Len(p)] = <<@[1] + k, @[2]>>]
InverseOffsetLowest(p, k) == [p EXCEPT ![Len(p)] = <<@[1] - k, @[2]>>]
AssignLevel(p, level, atom) == [p EXCEPT ![level + 1] = <<atom, @[2]>>]

RECURSIVE NewBetweenFrom(_, _, _, _, _)
NewBetweenFrom(br, len, left, right, i) ==
  IF i <= Len(left) /\ i <= Len(right)
  THEN IF right[i][1] - left[i][1] > len + 1
       THEN << <<left[i][1] + 1, br>> >>
       ELSE IF left[i] = right[i]
       THEN <<left[i]>> \o NewBetweenFrom(br, len, left, right, i + 1)
       ELSE SubSeq(right, i, Len(right)) \o << <<0, br>> >>
  ELSE IF i <= Len(left)
  THEN SubSeq(left, i, Len(left) - 1) \o << <<left[Len(left)][1] + 1, br>> >>
  ELSE IF i <= Len(right)
  THEN SubSeq(right, i, Len(right)) \o << <<0, br>> >>
  ELSE << <<0, br>> >>

\* the run start, start + 1, ..., start + len - 1 lies strictly between left
\* and right; with no room at the shared levels a new level on br is appended
\* under the right neighbour
NewBetween(br, len, left, right) ==
  IF left = None /\ right = None THEN << <<0, br>> >>
  ELSE IF left = None
  THEN [InverseOffsetLowest(right, len + 1) EXCEPT ![Len(right)] = <<@[1], br>>]
  ELSE IF right = None
  THEN [OffsetLowest(left, 1) EXCEPT ![Len(left)] = <<@[1], br>>]
  ELSE NewBetweenFrom(br, len, left, right, 1)

\* ------------------------------------------------------------------------
\* AnchorLogootNode
\* ------------------------------------------------------------------------
NewNode(id, pos, len, type, clk) ==
  [id |-> id, logoot_start |-> pos, length |-> len, type |-> type,
   clk |-> clk, value |-> 0, left_anchor |-> DocStart,
   right_anchor |-> DocEnd, conflict_with |-> {}]

LogootEnd(n) == OffsetLowest(n.logoot_start, n.length)
\* a local length that tombstones keep
LdocLengthAny(n) == n.length
\* only DATA nodes take room in the local document
LdocLength(n) == IF n.type = "DATA" THEN n.length ELSE 0
LdocStart(n) == n.value
LdocEnd(n) == n.value + LdocLength(n)
TrueLeft(n) == n.left_anchor
TrueRight(n) == n.right_anchor

ReduceLeft(n, pos) ==
  IF Gt(pos, n.left_anchor) THEN [n EXCEPT !.left_anchor = pos] ELSE n
ReduceRight(n, pos) ==
  IF Lt(pos, n.right_anchor) THEN [n EXCEPT !.right_anchor = pos] ELSE n

\* preferential_cmp: by logoot_start first, then the shorter position first
PrefCmp(a, b) ==
  LET c == Cmp(a.logoot_start, b.logoot_start)
  IN IF c # 0 THEN c
     ELSE IF Len(a.logoot_start) < Len(b.logoot_start) THEN 0 - 1
     ELSE IF Len(a.logoot_start) > Len(b.logoot_start) THEN 1
     ELSE 0

\* The anchor rule of the conflict relation: does the anchor span of `c`
\* reach over `n`?
Conflicts(c, n) ==
  IF Lt(c.logoot_start, n.logoot_start)
  THEN TrueRight(c) = DocEnd \/ Gt(TrueRight(c), n.logoot_start)
  ELSE TrueLeft(c) = DocStart \/ Lt(TrueLeft(c), LogootEnd(n))

\* ------------------------------------------------------------------------
\* DBst: the in-order sequence of the nodes
\* ------------------------------------------------------------------------
Ids(bst) == {bst[i].id : i \in 1..Len(bst)}
Idx(bst, id) == CHOOSE i \in 1..Len(bst) : bst[i].id = id
FreshId(bst) == Len(bst) + 1

BstAdd(bst, n) ==
  LET k == Cardinality({i \in 1..Len(bst) : PrefCmp(bst[i], n) <= 0})
  IN SubSeq(bst, 1, k) \o <<n>> \o SubSeq(bst, k + 1, Len(bst))

AddSpaceBefore(bst, i, delta) ==
  AsSeq([j \in 1..Len(bst) |->
     IF j >= i THEN [bst[j] EXCEPT !.value = @ + delta] ELSE bst[j]])

\* ------------------------------------------------------------------------
\* sliceNodesIntoRanges
\* ------------------------------------------------------------------------
\* Number of positions of the run of `n` that lie before boundary `b`.
SplitOffset(n, b) ==
  Cardinality({k \in 0..(n.length - 1) :
                 Lt(OffsetLowest(n.logoot_start, k), b)})

\* the length of the right half of a node of `length` positions split after
\* its first `off` positions
RestLengthShort(length, off) == length - off - 1

RestLength(length, off) == length - off

\* Split node `id` after its first `off` positions.  The left half stays the
\* node itself, the right half is a new node that is added to the BST.
SplitNode(bst, id, off) ==
  LET i == Idx(bst, id)
      o == bst[i]
      nid == FreshId(bst)
      mid == OffsetLowest(o.logoot_start, off)
      keep(h) == {q \in o.conflict_with :
                    q \in Ids(bst) /\ Conflicts(bst[Idx(bst, q)], h)}
  IN
  Bind(ReduceRight([o EXCEPT !.length = off], mid), LAMBDA p0 :
  Bind(ReduceLeft([o EXCEPT !.id = nid, !.logoot_start = mid,
                            !.length = RestLength(o.length, off),
                            !.value = o.value + (IF o.type = "DATA"
                                                 THEN off ELSE 0)], mid),
       LAMBDA n0 :
  Bind([p0 EXCEPT !.conflict_with = keep(p0)], LAMBDA p :
  Bind([n0 EXCEPT !.conflict_with = keep(n0)], LAMBDA n :
  BstAdd(AsSeq([j \in 1..Len(bst) |->
           IF j = i THEN p
           ELSE IF id \in bst[j].conflict_with
           THEN [bst[j] EXCEPT !.conflict_with =
                   (@ \ {id})
                   \cup (IF Conflicts(p, bst[j]) THEN {id} ELSE {})
                   \cup (IF Conflicts(n, bst[j]) THEN {nid} ELSE {})]
           ELSE bst[j]]),
         n)))))

RECURSIVE SliceRec(_, _, _, _, _)
SliceRec(bst, B, todo, bi, groups) ==
  IF todo = <<>> THEN [bst |-> bst, groups |-> groups]
  ELSE LET id == Head(todo)
           n == bst[Idx(bst, id)]
           off == SplitOffset(n, B[bi])
       IN IF bi <= Len(B) /\ Lteq(B[bi], n.logoot_start)
          THEN SliceRec(bst, B, todo, bi + 1, groups)
          ELSE IF bi <= Len(B) /\ off > 0 /\ off < n.length
          THEN SliceRec(SplitNode(bst, id, off), B,
                        <<FreshId(bst)>> \o Tail(todo), bi,
                        [groups EXCEPT ![bi] = Append(@, id)])
          ELSE SliceRec(bst, B, Tail(todo), bi,
                        [groups EXCEPT ![bi] = Append(@, id)])

SliceNodesIntoRanges(bst, B, blob) ==
  SliceRec(bst, B, blob, 1, AsSeq([g \in 1..(Len(B) + 1) |-> <<>>]))

\* ------------------------------------------------------------------------
\* DBst.prefSearch: the ids of the lesser, range and greater bucket.
\* An open bound (LO, GO) keeps the end point out of the range, a closed
\* one (LC) keeps it in; a node on an open upper end point is greater
\* (comment of insertLocal, lines 443-445).  The lesser and the greater
\* bucket hold the node nearest to the range.
\* ------------------------------------------------------------------------
PrefSearch(bst, low, high, lesserClosed) ==
  LET inGreater(n) == high # None /\ Gteq(n.logoot_start, high)
      inLesser(n) == ~inGreater(n) /\ low # None /\
                     (IF lesserClosed THEN Lt(n.logoot_start, low)
                      ELSE Lteq(n.logoot_start, low))
      L == {i \in 1..Len(bst) : inLesser(bst[i])}
      G == {i \in 1..Len(bst) : inGreater(bst[i])}
      R == {i \in 1..Len(bst) : ~inLesser(bst[i]) /\ ~inGreater(bst[i])}
      lmax == CHOOSE i \in L : \A j \in L : j <= i
      gmin == CHOOSE i \in G : \A j \in G : j >= i
      ordered(S) == AsSeq([k \in 1..Cardinality(S) |->
                       bst[CHOOSE i \in S :
                             Cardinality({j \in S : j < i}) = k - 1].id])
  IN [lesser |-> IF L = {} THEN <<>> ELSE <<bst[lmax].id>>,
      range |-> ordered(R),
      greater |-> IF G = {} THEN <<>> ELSE <<bst[gmin].id>>]

\* ------------------------------------------------------------------------
\* OperationBuffer.  A context `c` holds the BST, the operations pushed so
\* far, the DUMMY node (dpos, dv) and whether the buffer knows it (dummy),
\* and whether a FatalError was thrown (err).  An operation records the node
\* it was pushed for (the first argument of remove and insert).
\* ------------------------------------------------------------------------
NewCtx(bst, avail) ==
  [bst |-> bst, ops |-> <<>>, dummy |-> FALSE, dv |-> 0, dpos |-> None,
   avail |-> avail, err |-> FALSE]

Nd(c, id) ==
  IF id = 0
  THEN [NewNode(0, c.dpos, 0, "DUMMY", 0) EXCEPT !.value = c.dv]
  ELSE c.bst[Idx(c.bst, id)]

SetNd(c, id, rec) == [c EXCEPT !.bst[Idx(c.bst, id)] = rec]

\* The part remove and insert share: the dummy node and the successor move.
OpShift(c, id, start, delta) ==
  LET c1 == IF c.dummy /\ c.dv >= start THEN [c EXCEPT !.dv = @ + delta]
            ELSE c
  IN IF id # 0 /\ Idx(c.bst, id) < Len(c.bst)
     THEN [c1 EXCEPT !.bst = AddSpaceBefore(@, Idx(c.bst, id) + 1, delta)]
     ELSE c1

OpRemove(c, id, start, length) ==
  IF c.err \/ length = 0 THEN c
  ELSE IF start < 0 \/ length < 0 THEN [c EXCEPT !.err = TRUE]
  ELSE OpShift([c EXCEPT !.ops = Append(@, [type |-> "r", start |-> start,
                                            offset |-> 0,
                                            length |-> length,
                                            node |-> id])],
               id, start, 0 - length)

OpInsert(c, id, start, offset, length) ==
  IF c.err \/ length = 0 THEN c
  ELSE IF start < 0 \/ length < 0 \/ offset + length > c.avail
  THEN [c EXCEPT !.err = TRUE]
  ELSE OpShift([c EXCEPT !.ops = Append(@, [type |-> "i", start |-> start,
                                            offset |-> offset,
                                            length |-> length,
                                            node |-> id])],
               id, start, length)

\* ------------------------------------------------------------------------
\* Small helpers on sequences of node ids
\* ------------------------------------------------------------------------
NoNode == 0 - 1
Reverse(s) == AsSeq([k \in 1..Len(s) |-> s[Len(s) + 1 - k]])
Last(s) == s[Len(s)]
OrElse(a, b) == IF a # NoNode THEN a ELSE b
FirstOr(s) == IF s = <<>> THEN NoNode ELSE s[1]
LastOr(s) == IF s = <<>> THEN NoNode ELSE Last(s)
Opt(id) == IF id = NoNode THEN <<>> ELSE <<id>>

RECURSIVE LowestData(_, _)
LowestData(bst, arr) ==
  IF arr = <<>> THEN NoNode
  ELSE IF bst[Idx(bst, Head(arr))].type = "DATA" THEN Head(arr)
  ELSE LowestData(bst, Tail(arr))

\* ------------------------------------------------------------------------
\* constructSkipRanges
\* ------------------------------------------------------------------------
ConstructSkipRanges(bst0, left, start, end, right) ==
  Bind(PrefSearch(bst0,
                  IF left # None THEN InverseOffsetLowest(left, 1) ELSE None,
                  right, FALSE),
       LAMBDA buckets :
  Bind(SliceNodesIntoRanges(
         bst0,
         <<IF left # None THEN left ELSE start, start, end,
           IF right # None THEN right ELSE end>>,
         buckets.lesser \o buckets.range \o buckets.greater),
       LAMBDA sl :
  LET bst == sl.bst
      aleft == IF left = None THEN <<>> ELSE sl.groups[1]
      nc_left == IF left = None THEN sl.groups[2] \o sl.groups[1]
                 ELSE sl.groups[2]
      skip0 == sl.groups[3]
      nc_right == IF right = None THEN sl.groups[4] \o sl.groups[5]
                  ELSE sl.groups[4]
      aright == IF right = None THEN <<>> ELSE sl.groups[5]
      needDummy == skip0 = <<>> \/
                   Lt(LogootEnd(bst[Idx(bst, Last(skip0))]), end)
      dv == IF skip0 # <<>> THEN LdocEnd(bst[Idx(bst, Last(skip0))])
            ELSE IF nc_right # <<>> THEN LdocStart(bst[Idx(bst, nc_right[1])])
            ELSE IF nc_left # <<>> THEN LdocEnd(bst[Idx(bst, Last(nc_left))])
            ELSE IF buckets.lesser # <<>>
            THEN LdocEnd(bst[Idx(bst, Last(buckets.lesser))])
            ELSE 0
      al == LowestData(bst, Reverse(aleft))
      ar == LowestData(bst, aright)
  IN [bst |-> bst,
      anchor_left |-> IF left = None \/
                         (al # NoNode /\
                          ~Eq(LogootEnd(bst[Idx(bst, al)]), left))
                      THEN NoNode ELSE al,
      nc_left |-> nc_left,
      skip_ranges |-> IF needDummy THEN Append(skip0, 0) ELSE skip0,
      nc_right |-> nc_right,
      anchor_right |-> IF right = None \/
                          (ar # NoNode /\
                           ~Eq(bst[Idx(bst, ar)].logoot_start, right))
                       THEN NoNode ELSE ar,
      hasDummy |-> needDummy,
      dv |-> dv]))

\* ------------------------------------------------------------------------
\* fillSkipRanges: returns the context and the filled ranges
\* ------------------------------------------------------------------------
\* a gap test that also lets an empty gap through
HasSpaceOrNone(space_avail) == space_avail >= 0

\* line 264: a gap is filled only when it has room
HasSpace(space_avail) == space_avail > 0

\* a gap node that keeps the level atom of `start`
GapStartUnmoved(start, level, llp) == start

\* lines 265-266: the gap node starts at `start` with the level atom moved to
\* last_level_pos
GapStart(start, level, llp) == AssignLevel(start, level, llp)

\* an on-top test that does not look at the clock
OnTopAnyClock(node, level, clk) ==
  node.type # "DUMMY" /\ Levels(node.logoot_start) = level

\* lines 286-290: the run lands on top of an existing node of its level
\* unless the node has a newer clock
OnTop(node, level, clk) ==
  node.type # "DUMMY" /\ Levels(node.logoot_start) = level /\ node.clk <= clk

\* a walk that resumes at the level atom of the node's logoot_start
NextLevelPosAtStart(node, level) == AtomAt(node.logoot_start, level)

\* line 302: the walk resumes at the level atom of the node's logoot_end
NextLevelPos(node, level) == AtomAt(LogootEnd(node), level)

\* lines 291-299: the run replaces what node `id` holds; `offset` is the
\* place of the node in the inserted run
FillOnTop(c, id, clk, type, offset) ==
  Bind(SetNd(c, id, [Nd(c, id) EXCEPT !.clk = clk]), LAMBDA c2 :
  Bind(OpRemove(c2, id, LdocStart(Nd(c2, id)), LdocLength(Nd(c2, id))),
       LAMBDA c3 :
  Bind(SetNd(c3, id, [Nd(c3, id) EXCEPT !.type = type]), LAMBDA c4 :
  OpInsert(c4, id, LdocStart(Nd(c4, id)), offset, LdocLength(Nd(c4, id))))))

RECURSIVE FillRec(_, _, _, _, _, _, _)
FillRec(c, start, clk, type, todo, llp, filled) ==
  IF todo = <<>> THEN [c |-> c, filled |-> filled]
  ELSE
    LET id == Head(todo)
        level == Levels(start)
        start_int == AtomAt(start, level)
        node0 == Nd(c, id)
        space_avail == AtomAt(node0.logoot_start, level) - llp
        nid == FreshId(c.bst)
        nnode == [NewNode(nid, GapStart(start, level, llp), space_avail,
                          type, clk)
                    EXCEPT !.value = LdocStart(node0)]
    IN
    Bind(IF HasSpace(space_avail)
         THEN OpInsert([c EXCEPT !.bst = BstAdd(@, nnode)], nid,
                       LdocStart(nnode), llp - start_int, LdocLength(nnode))
         ELSE c,
         LAMBDA c1 :
    Bind(IF OnTop(Nd(c1, id), level, clk)
         THEN FillOnTop(c1, id, clk, type,
                        AtomAt(Nd(c1, id).logoot_start, level) - start_int)
         ELSE c1,
         LAMBDA c6 :
    FillRec(c6, start, clk, type, Tail(todo),
            NextLevelPos(Nd(c6, id), level),
            filled \o (IF HasSpace(space_avail) THEN <<nid>> ELSE <<>>)
                   \o (IF id # 0 THEN <<id>> ELSE <<>>))))

FillSkipRanges(c, start, clk, type, skip_ranges) ==
  FillRec(c, start, clk, type, skip_ranges,
          AtomAt(start, Levels(start)), <<>>)

\* ------------------------------------------------------------------------
\* linkFilledSkipRanges
\* ------------------------------------------------------------------------
RECURSIVE LinkRec(_, _, _, _, _)
LinkRec(c, alvl, todo, lla, lnode) ==
  IF todo = <<>> THEN [c |-> c, lnode |-> lnode]
  ELSE
    LET id == Head(todo)
    IN
    Bind(IF lla # None /\ Levels(lla) = alvl
         THEN SetNd(c, id, ReduceLeft(Nd(c, id), lla))
         ELSE c,
         LAMBDA c1 :
    Bind(IF lnode # NoNode
         THEN SetNd(c1, lnode,
                    ReduceRight(Nd(c1, lnode), Nd(c1, id).logoot_start))
         ELSE c1,
         LAMBDA c2 :
    LinkRec(c2, alvl, Tail(todo), LogootEnd(Nd(c2, id)), id)))

LinkFilledSkipRanges(c, left, right, filled) ==
  LET alvl == IF left # None /\ right # None
              THEN (IF Levels(left) < Levels(right) THEN Levels(left)
                    ELSE Levels(right))
              ELSE IF left # None THEN Levels(left)
              ELSE IF right # None THEN Levels(right)
              ELSE 0
      todo == SelectSeq(filled,
                LAMBDA id : Levels(Nd(c, id).logoot_start) = alvl /\
                            Nd(c, id).type = "DATA")
  IN
  Bind(LinkRec(c, alvl, todo, left, NoNode), LAMBDA r :
  IF r.lnode # NoNode /\ right # None
  THEN SetNd(r.c, r.lnode, ReduceRight(Nd(r.c, r.lnode), right))
  ELSE r.c)

\* ------------------------------------------------------------------------
\* AnchorLogootNode.updateNeighborConflicts and fillRangeConflicts
\* ------------------------------------------------------------------------
UpdateNeighborConflicts(c, id, last) ==
  LET hit == Conflicts(Nd(c, last), Nd(c, id))
  IN [c |-> SetNd(c, id, [Nd(c, id) EXCEPT !.conflict_with =
                            IF hit THEN @ \cup {last} ELSE @ \ {last}]),
      ok |-> hit]

RECURSIVE CfRec(_, _, _)
CfRec(c, todo, last) ==
  IF todo = <<>> THEN c
  ELSE IF last = NoNode THEN CfRec(c, Tail(todo), Head(todo))
  ELSE Bind(UpdateNeighborConflicts(c, Head(todo), last), LAMBDA r :
            IF r.ok THEN CfRec(r.c, Tail(todo), Head(todo)) ELSE r.c)

\* The second sweep reverses `range` in place: the caller's array stays
\* reversed (see InsertLogoot).
FillRangeConflicts(c, nl_lesser, nl_greater, range) ==
  CfRec(CfRec(c, range, nl_lesser), Reverse(range), nl_greater)

\* ------------------------------------------------------------------------
\* patchRemovalAnchors
\* ------------------------------------------------------------------------
\* the position an anchor is moved to: the far boundary of the tombstone
PatchTargetFar(node, backwards) == IF backwards THEN DocStart ELSE DocEnd

PatchTarget(node, backwards) ==
  IF backwards THEN node.logoot_start ELSE LogootEnd(node)

RECURSIVE PatchRec(_, _, _, _)
PatchRec(c, todo, backwards, scan) ==
  IF todo = <<>> THEN c
  ELSE
    LET id == Head(todo)
        node == Nd(c, id)
        fresh == {s \in node.conflict_with \cup {id} :
                    ~(IF backwards THEN TrueLeft(Nd(c, s)) = DocStart
                      ELSE TrueRight(Nd(c, s)) = DocEnd)}
        apos(s) == IF backwards THEN TrueLeft(Nd(c, s))
                   ELSE TrueRight(Nd(c, s))
        kept == {s \in scan :
                   ~(IF backwards THEN Gt(apos(s), LogootEnd(node))
                     ELSE Lt(apos(s), node.logoot_start))}
        moved == AsSeq([j \in 1..Len(c.bst) |->
                   LET m == c.bst[j]
                       m1 == IF m.id \in kept
                             THEN (IF backwards
                                   THEN (IF Gt(m.left_anchor,
                                               node.logoot_start)
                                         THEN [m EXCEPT !.left_anchor =
                                                 PatchTarget(node, TRUE)]
                                         ELSE m)
                                   ELSE (IF Lt(m.right_anchor,
                                               LogootEnd(node))
                                         THEN [m EXCEPT !.right_anchor =
                                                 PatchTarget(node, FALSE)]
                                         ELSE m))
                             ELSE m
                   IN IF m.id = id
                      THEN [m1 EXCEPT !.conflict_with = @ \cup kept]
                      ELSE m1])
    IN IF node.type = "DATA"
       THEN PatchRec(c, Tail(todo), backwards, fresh)
       ELSE PatchRec([c EXCEPT !.bst = moved], Tail(todo), backwards, kept)

PatchRemovalAnchors(c, range, backwards) ==
  PatchRec(c, IF backwards THEN Reverse(range) ELSE range, backwards, {})

\* ------------------------------------------------------------------------
\* ListDocumentModel.insertLogoot
\* ------------------------------------------------------------------------
MinPos(P) == CHOOSE p \in P : \A q \in P : Lteq(p, q)

\* lines 546-565: reduce the right anchor of `target` to the start of every
\* node of the scan set of `nl` whose true_left is the end of `target`
TightenFrom(c, nl, target) ==
  IF nl = NoNode \/ target = NoNode THEN c
  ELSE LET set == Nd(c, nl).conflict_with \cup {nl}
           tend == LogootEnd(Nd(c, target))
           P == {Nd(c, s).logoot_start :
                   s \in {t \in set : TrueLeft(Nd(c, t)) # DocStart /\
                                      Eq(TrueLeft(Nd(c, t)), tend)}}
       IN IF P = {} THEN c
          ELSE SetNd(c, target, ReduceRight(Nd(c, target), MinPos(P)))

\* lines 574-580
RECURSIVE AddLeftRec(_, _, _, _)
AddLeftRec(c, todo, who, stoppos) ==
  IF todo = <<>> THEN c
  ELSE LET id == Head(todo)
           c1 == SetNd(c, id, [Nd(c, id) EXCEPT !.conflict_with =
                                 @ \cup {who}])
       IN IF stoppos # None /\ Lteq(LogootEnd(Nd(c1, id)), stoppos)
          THEN c1
          ELSE AddLeftRec(c1, Tail(todo), who, stoppos)

\* lines 587-595
RECURSIVE AddRightRec(_, _, _, _)
AddRightRec(c, todo, who, stoppos) ==
  IF todo = <<>> THEN c
  ELSE LET id == Head(todo)
       IN IF stoppos # None /\ Gteq(Nd(c, id).logoot_start, stoppos)
          THEN c
          ELSE AddRightRec(SetNd(c, id, [Nd(c, id) EXCEPT !.conflict_with =
                                           @ \cup {who}]),
                           Tail(todo), who, stoppos)

\* lines 610-614 and 626-630: walk from node index i in direction dir
RECURSIVE ClearRec(_, _, _, _)
ClearRec(bst, i, dir, anchor) ==
  IF i < 1 \/ i > Len(bst) THEN bst
  ELSE IF anchor \notin bst[i].conflict_with THEN bst
  ELSE ClearRec([bst EXCEPT ![i].conflict_with = @ \ {anchor}],
                i + dir, dir, anchor)

\* lines 575 and 610 read filled_skip_ranges[0], lines 592 and 626 read
\* filled_skip_ranges[filled_skip_ranges.length - 1], of the array as
\* fillRangeConflicts left it
LeftEndpoint(filled) == filled[1]
RightEndpoint(filled) == Last(filled)

\* the local variables of insertLogoot the conflict propagation works on, kept
\* with the result: the filled range in the order fillSkipRanges returned it
\* and the nodes handed to the two walks and the two clearings
Endpoints(filled0, filled, nc_left, nc_right, anchor_left, anchor_right) ==
  [filled |-> filled0, nc_left |-> nc_left, nc_right |-> nc_right,
   anchor_left |-> anchor_left, anchor_right |-> anchor_right,
   left_node |-> IF filled # <<>> THEN LeftEndpoint(filled) ELSE NoNode,
   right_node |-> IF filled # <<>> THEN RightEndpoint(filled) ELSE NoNode]

InsertLogoot(bst0, br, left, right, length, clk) ==
  Bind(NewBetween(br, length, left, right), LAMBDA start :
  LET end == OffsetLowest(start, length)
  IN
  Bind(ConstructSkipRanges(bst0, left, start, end, right), LAMBDA sk :
  LET anchor_left == sk.anchor_left
      anchor_right == sk.anchor_right
      nl_lesser == OrElse(LastOr(sk.nc_left), anchor_left)
      nl_greater == OrElse(FirstOr(sk.nc_right), anchor_right)
  IN
  Bind(FillSkipRanges([NewCtx(sk.bst, length) EXCEPT !.dummy = sk.hasDummy,
                                                     !.dv = sk.dv,
                                                     !.dpos = end],
                      start, clk, "DATA", sk.skip_ranges),
       LAMBDA fill :
  LET filled0 == fill.filled
      first_node == FirstOr(filled0)
      last_node == LastOr(filled0)
      \* fillRangeConflicts leaves the array reversed
      filled == Reverse(filled0)
      prange == Opt(nl_lesser) \o filled \o Opt(nl_greater)
  IN
  Bind(LinkFilledSkipRanges(fill.c, left, right, filled0), LAMBDA c1 :
  Bind(TightenFrom(c1, nl_lesser, first_node), LAMBDA c2 :
  Bind(TightenFrom(c2, nl_greater, last_node), LAMBDA c3 :
  Bind(FillRangeConflicts(c3, nl_lesser, nl_greater, filled0), LAMBDA c4 :
  Bind(IF filled # <<>>
       THEN AddLeftRec(c4, Reverse(sk.nc_left), LeftEndpoint(filled),
                       IF TrueLeft(Nd(c4, first_node)) # DocStart
                       THEN TrueLeft(Nd(c4, first_node)) ELSE None)
       ELSE c4,
       LAMBDA c5 :
  Bind(IF filled # <<>>
       THEN AddRightRec(c5, sk.nc_right, RightEndpoint(filled),
                        IF TrueRight(Nd(c5, last_node)) # DocEnd
                        THEN TrueRight(Nd(c5, last_node)) ELSE None)
       ELSE c5,
       LAMBDA c6 :
  Bind(IF anchor_left # NoNode
       THEN SetNd(c6, anchor_left, ReduceRight(Nd(c6, anchor_left), start))
       ELSE c6,
       LAMBDA a7 :
  Bind(IF anchor_left # NoNode /\ filled # <<>>
       THEN [a7 EXCEPT !.bst = ClearRec(@, Idx(a7.bst, LeftEndpoint(filled)),
                                        1, anchor_left)]
       ELSE a7,
       LAMBDA c7 :
  Bind(IF anchor_right # NoNode
       THEN SetNd(c7, anchor_right, ReduceLeft(Nd(c7, anchor_right), end))
       ELSE c7,
       LAMBDA a8 :
  Bind(IF anchor_right # NoNode /\ filled # <<>>
       THEN [a8 EXCEPT !.bst = ClearRec(@,
                                        Idx(a8.bst, RightEndpoint(filled)),
                                        0 - 1, anchor_right)]
       ELSE a8,
       LAMBDA c8 :
  Bind(PatchRemovalAnchors(c8, prange, FALSE), LAMBDA c9 :
  PatchRemovalAnchors(c9, prange, TRUE) @@
    [endpoints |-> Endpoints(filled0, filled, sk.nc_left, sk.nc_right,
                             anchor_left, anchor_right)]))))))))))))))

\* ------------------------------------------------------------------------
\* ListDocumentModel.removeLogoot
\* ------------------------------------------------------------------------
\* The members of a Set of nodes in iteration order.  The model keeps
\* conflict_with as a set and iterates it by ascending node id.
SeqOf(S) ==
  AsSeq([k \in 1..Cardinality(S) |->
     CHOOSE x \in S : Cardinality({y \in S : y < x}) = k - 1])

\* a gate that does not look at the nesting level
RemovalGateAnyLevel(node, start, clk) == node.clk <= clk

\* line 682: the nodes of the range that a removal takes
RemovalGate(node, start, clk) ==
  node.clk <= clk /\ Len(node.logoot_start) = Len(start)

\* lines 681-687
RECURSIVE RetypeRec(_, _, _, _)
RetypeRec(c, todo, start, clk) ==
  IF todo = <<>> THEN c
  ELSE LET id == Head(todo)
           node == Nd(c, id)
           c1 == OpRemove(c, id, LdocStart(node), LdocLength(node))
           c2 == SetNd(c1, id, [Nd(c1, id) EXCEPT !.type = "REMOVAL",
                                                  !.clk = clk])
       IN RetypeRec(IF RemovalGate(node, start, clk) THEN c2 ELSE c,
                    Tail(todo), start, clk)

\* lines 689-696
RECURSIVE GrowLesser(_, _)
GrowLesser(bst, lesser) ==
  IF lesser # <<>> /\ bst[Idx(bst, lesser[1])].type = "REMOVAL" /\
     Idx(bst, lesser[1]) > 1
  THEN GrowLesser(bst, <<bst[Idx(bst, lesser[1]) - 1].id>> \o lesser)
  ELSE lesser

\* lines 697-704
RECURSIVE GrowGreater(_, _)
GrowGreater(bst, greater) ==
  IF greater # <<>> /\ bst[Idx(bst, Last(greater))].type = "REMOVAL" /\
     Idx(bst, Last(greater)) < Len(bst)
  THEN GrowGreater(bst, Append(greater,
                                bst[Idx(bst, Last(greater)) + 1].id))
  ELSE greater

\* fixConflicts, lines 732-750
RECURSIVE FixRec(_, _, _, _)
FixRec(c, rm, id, backwards) ==
  IF rm = <<>> THEN c
  ELSE LET cn == Nd(c, Head(rm))
           node == Nd(c, id)
           del == IF backwards
                  THEN Gteq(cn.logoot_start, TrueRight(node))
                  ELSE Lteq(LogootEnd(cn), TrueLeft(node))
       IN IF id \notin cn.conflict_with THEN c
          ELSE FixRec(IF del
                      THEN SetNd(c, cn.id,
                                 [cn EXCEPT !.conflict_with = @ \ {id}])
                      ELSE c,
                      Tail(rm), id, backwards)

\* scan_nodes.forEach, lines 731-766
RECURSIVE ScanRec(_, _, _, _, _)
ScanRec(c, scan, id, rm, backwards) ==
  IF scan = <<>> THEN c
  ELSE LET s == Nd(c, Head(scan))
           node == Nd(c, id)
           hitF == ~backwards /\ TrueRight(s) # DocEnd /\
                   Eq(TrueRight(s), node.logoot_start)
           hitB == backwards /\ TrueLeft(s) # DocStart /\
                   Eq(TrueLeft(s), LogootEnd(node))
           c1 == IF hitF
                 THEN FixRec(SetNd(c, id, ReduceLeft(node, LogootEnd(s))),
                             rm, id, backwards)
                 ELSE IF hitB
                 THEN FixRec(SetNd(c, id,
                                   ReduceRight(node, s.logoot_start)),
                             rm, id, backwards)
                 ELSE c
       IN ScanRec(c1, Tail(scan), id, rm, backwards)

\* patchNewRemovalAnchors, lines 719-779
RECURSIVE PatchNewRec(_, _, _, _, _)
PatchNewRec(c, todo, backwards, scan, rm) ==
  IF todo = <<>> THEN c
  ELSE LET id == Head(todo)
           isData == Nd(c, id).type = "DATA"
           c1 == IF isData THEN c ELSE ScanRec(c, scan, id, rm, backwards)
           rm1 == IF isData THEN <<>>
                  ELSE IF backwards THEN Append(rm, id)
                  ELSE <<id>> \o rm
       IN PatchNewRec(c1, Tail(todo), backwards,
                      Append(SeqOf(Nd(c1, id).conflict_with \ {id}), id),
                      rm1)

PatchNewRemovalAnchors(c, range, backwards) ==
  PatchNewRec(c, IF backwards THEN Reverse(range) ELSE range, backwards,
              <<>>, <<>>)

RemoveLogoot(bst0, start, length, clk) ==
  LET end == OffsetLowest(start, length)
  IN
  Bind(PrefSearch(bst0, start, end, TRUE), LAMBDA buckets :
  Bind(SliceNodesIntoRanges(
         bst0, <<start, end>>,
         buckets.lesser \o buckets.range \o buckets.greater),
       LAMBDA sl :
  Bind(RetypeRec(NewCtx(sl.bst, 0), sl.groups[2], start, clk), LAMBDA c1 :
  Bind(GrowLesser(c1.bst, sl.groups[1]) \o sl.groups[2]
         \o GrowGreater(c1.bst, sl.groups[3]),
       LAMBDA full_range :
  Bind(PatchNewRemovalAnchors(c1, full_range, FALSE), LAMBDA c2 :
  Bind(PatchNewRemovalAnchors(c2, full_range, TRUE), LAMBDA c3 :
  Bind(PatchRemovalAnchors(c3, full_range, FALSE), LAMBDA c4 :
  PatchRemovalAnchors(c4, full_range, TRUE))))))))

\* ------------------------------------------------------------------------
\* ListDocumentModel.insertLocal
\* ------------------------------------------------------------------------
\* DBst.search(NumberRange(start, start, LOGO)): the nodes before `start`
\* that are nearest to it (they share one ldoc_start) and the nodes at or
\* after `start` that are nearest to it, in BST order
LocalSearch(bst, start) ==
  LET below == {i \in 1..Len(bst) : LdocStart(bst[i]) < start}
      above == {i \in 1..Len(bst) : LdocStart(bst[i]) >= start}
      lv == CHOOSE v \in {LdocStart(bst[i]) : i \in below} :
              \A i \in below : LdocStart(bst[i]) <= v
      gv == CHOOSE v \in {LdocStart(bst[i]) : i \in above} :
              \A i \in above : LdocStart(bst[i]) >= v
  IN [lesser |-> SelectSeq(bst, LAMBDA n : below # {} /\ LdocStart(n) < start
                                           /\ LdocStart(n) = lv),
      greater |-> SelectSeq(bst, LAMBDA n : above # {} /\ LdocStart(n) >= start
                                            /\ LdocStart(n) = gv)]

\* a clock step that never raises the clock
ClockStepKeep(max_clock, node) == max_clock

\* lines 451-456: one node of the two buckets
ClockStep(max_clock, node) ==
  IF node.type = "DATA" THEN max_clock
  ELSE IF node.clk >= max_clock THEN node.clk + 1
  ELSE max_clock

\* lines 449-457
RECURSIVE MaxClock(_, _)
MaxClock(nodes, max_clock) ==
  IF nodes = <<>> THEN max_clock
  ELSE MaxClock(Tail(nodes), ClockStep(max_clock, Head(nodes)))

\* lines 459-476: the DATA nodes of a bucket; more than one is an
\* InternalError
DataNodes(array) == SelectSeq(array, LAMBDA n : n.type = "DATA")

\* line 478: `start` lies inside the lesser DATA node
Spans(node, start) == LdocEnd(node) > start

\* an argument check that lets an empty run through
ValidArgsLax(start, length) == start >= 0 /\ length >= 0

\* lines 437-442
ValidArgs(start, length) == start >= 0 /\ length > 0

Envelope(kind, start, length, left, right, clk) ==
  [kind |-> kind, start |-> start, length |-> length, left |-> left,
   right |-> right, clk |-> clk]

NoEnvelope == Envelope("none", 0, 0, None, None, 0)

InsertLocal(bst, start, length) ==
  IF ~ValidArgs(start, length)
  THEN Envelope("TypeError", start, length, None, None, 0)
  ELSE
    Bind(LocalSearch(bst, start), LAMBDA buckets :
    LET max_clock == MaxClock(buckets.lesser \o buckets.greater, 0)
        lesser == DataNodes(buckets.lesser)
        greater == DataNodes(buckets.greater)
    IN IF Len(lesser) > 1
       THEN Envelope("InternalError", start, length, None, None, 0)
       ELSE IF lesser # <<>> /\ Spans(lesser[1], start)
       THEN LET pos == OffsetLowest(lesser[1].logoot_start,
                                    start - LdocStart(lesser[1]))
            IN Envelope("returned", start, length, pos, pos, max_clock)
       ELSE IF Len(greater) > 1
       THEN Envelope("InternalError", start, length, None, None, 0)
       ELSE Envelope("returned", start, length,
                     IF lesser # <<>> THEN LogootEnd(lesser[1]) ELSE None,
                     IF greater # <<>> THEN greater[1].logoot_start
                     ELSE None,
                     max_clock))

\* ------------------------------------------------------------------------
\* The local document of the caller: the elements are logical positions
\* ------------------------------------------------------------------------
RECURSIVE ApplyOps(_, _, _)
ApplyOps(d, ops, start) ==
  IF ops = <<>> THEN d
  ELSE LET o == Head(ops)
           els == AsSeq([k \in 1..o.length |->
                     OffsetLowest(start, o.offset + k - 1)])
           ok == d.ok /\ o.start >= 0 /\
                 (IF o.type = "i" THEN o.start <= Len(d.doc)
                  ELSE o.start + o.length <= Len(d.doc))
           nd == IF ~ok THEN d.doc
                 ELSE IF o.type = "i"
                 THEN SubSeq(d.doc, 1, o.start) \o els \o
                      SubSeq(d.doc, o.start + 1, Len(d.doc))
                 ELSE SubSeq(d.doc, 1, o.start) \o
                      SubSeq(d.doc, o.start + o.length + 1, Len(d.doc))
       IN ApplyOps([doc |-> nd, ok |-> ok], Tail(ops), start)

\* The BST without the node ids: what two replicas can compare
View(b) ==
  AsSeq([i \in 1..Len(b) |->
     [logoot_start |-> b[i].logoot_start, length |-> b[i].length,
      type |-> b[i].type, clk |-> b[i].clk, ldoc_start |-> b[i].value,
      left_anchor |-> b[i].left_anchor, right_anchor |-> b[i].right_anchor,
      conflict_with |-> {b[Idx(b, q)].logoot_start :
                           q \in b[i].conflict_with \cap Ids(b)}]])

\* the positions a node holds, and the positions a call is about
Covered(n) == {OffsetLowest(n.logoot_start, k) : k \in 0..(n.length - 1)}
RunOf(call) == {OffsetLowest(call.start, k) : k \in 0..(call.length - 1)}

\* ------------------------------------------------------------------------
\* Arguments of the operations
\* ------------------------------------------------------------------------
Branches == 1..NumBranches
Lengths == 1..MaxLen
Clocks == 0..MaxClk
PosArgs == {<< <<a, 1>> >> : a \in (0 - 1)..(MaxAtom - 1)}
\* the neighbours of an insertion: none, a position and its successor, or a
\* position on one side only
InsPairs ==
  {<<None, None>>} \cup {<<p, OffsetLowest(p, 1)>> : p \in PosArgs}
                  \cup {<<p, None>> : p \in PosArgs}
                  \cup {<<None, p>> : p \in PosArgs}
RemArgs == {<< <<a, 1>> >> : a \in 0..MaxAtom}

\* ------------------------------------------------------------------------
\* The replicas.  bst, doc, ... belong to the replica that receives the
\* calls; bstB, docB, ... belong to a second replica that receives the calls
\* of `log` in an order of its own.
\* ------------------------------------------------------------------------
VARIABLES bst, doc, docok, ops, err, nOps, last, pre, preDoc, replay,
          log, seenB, bstB, docB, docokB, errB, env

varsA == <<bst, doc, docok, ops, err, nOps, last, pre, preDoc, replay>>
varsB == <<seenB, bstB, docB, docokB, errB>>
vars == <<bst, doc, docok, ops, err, nOps, last, pre, preDoc, replay,
          log, seenB, bstB, docB, docokB, errB, env>>

Call(kind, br, left, right, start, length, clk) ==
  [kind |-> kind, br |-> br, left |-> left, right |-> right,
   start |-> start, length |-> length, clk |-> clk]

InsertCall(br, lr, length, clk) ==
  Call("insert", br, lr[1], lr[2], NewBetween(br, length, lr[1], lr[2]),
       length, clk)

RemoveCall(start, length, clk) ==
  Call("remove", 0, None, None, start, length, clk)

\* the call `call` on a model whose BST is `b`
Apply(b, call) ==
  IF call.kind = "insert"
  THEN InsertLogoot(b, call.br, call.left, call.right, call.length, call.clk)
  ELSE RemoveLogoot(b, call.start, call.length, call.clk)

Init ==
  /\ bst = <<>>
  /\ doc = <<>>
  /\ docok = TRUE
  /\ ops = <<>>
  /\ err = FALSE
  /\ nOps = 0
  /\ last = Call("none", 0, None, None, None, 0, 0)
  /\ pre = <<>>
  /\ preDoc = <<>>
  /\ replay = FALSE
  /\ log = <<>>
  /\ seenB = {}
  /\ bstB = <<>>
  /\ docB = <<>>
  /\ docokB = TRUE
  /\ errB = FALSE
  /\ env = NoEnvelope

\* r is the result of `call` on bst
Step(r, call) ==
  LET d == ApplyOps([doc |-> doc, ok |-> docok], r.ops, call.start)
  IN /\ nOps < MaxOps
     /\ ~err
     /\ bst' = r.bst
     /\ ops' = r.ops
     /\ err' = r.err
     /\ doc' = d.doc
     /\ docok' = d.ok
     /\ nOps' = nOps + 1
     /\ last' = call
     /\ pre' = bst
     /\ preDoc' = doc
     /\ replay' = (call = last)

StepCall(call) == Step(Apply(bst, call), call)

DoInsertLogoot ==
  \E br \in Branches, lr \in InsPairs, length \in Lengths, clk \in Clocks :
    /\ StepCall(InsertCall(br, lr, length, clk))
    /\ env' = NoEnvelope
    /\ UNCHANGED <<log, varsB>>

DoRemoveLogoot ==
  \E start \in RemArgs, length \in Lengths, clk \in Clocks :
    /\ StepCall(RemoveCall(start, length, clk))
    /\ env' = NoEnvelope
    /\ UNCHANGED <<log, varsB>>

Next == DoInsertLogoot \/ DoRemoveLogoot

Spec == Init /\ [][Next]_vars

\* ------------------------------------------------------------------------
\* Two replicas: the first one receives distinct calls and logs them, the
\* second one receives the logged calls in any order
\* ------------------------------------------------------------------------
Logged(call) == \E i \in 1..Len(log) : log[i] = call

Originate(call) ==
  /\ Len(log) < MaxConvOps
  /\ ~Logged(call)
  /\ StepCall(call)
  /\ log' = Append(log, call)
  /\ UNCHANGED <<varsB, env>>

OriginateInsert ==
  \E br \in Branches, lr \in InsPairs, length \in Lengths, clk \in Clocks :
    Originate(InsertCall(br, lr, length, clk))

OriginateRemove ==
  \E start \in RemArgs, length \in Lengths, clk \in Clocks :
    Originate(RemoveCall(start, length, clk))

\* r is the result of the call log[i] on bstB
StepB(r, i) ==
  LET d == ApplyOps([doc |-> docB, ok |-> docokB], r.ops, log[i].start)
  IN /\ ~errB
     /\ bstB' = r.bst
     /\ errB' = r.err
     /\ docB' = d.doc
     /\ docokB' = d.ok
     /\ seenB' = seenB \cup {i}
     /\ UNCHANGED <<varsA, log, env>>

Deliver ==
  \E i \in (1..Len(log)) \ seenB : StepB(Apply(bstB, log[i]), i)

NextConv == OriginateInsert \/ OriginateRemove \/ Deliver

SpecConv == Init /\ [][NextConv]_vars

\* ------------------------------------------------------------------------
\* Local insertions: env is what the last insertLocal returned, with the
\* arguments of the call (start) and how the call ended (kind); a caller
\* whose document took every operation so far hands the envelope to
\* insertLogoot with a branch of its own
\* ------------------------------------------------------------------------
LocalLength(b) == IF b = <<>> THEN 0 ELSE LdocEnd(b[Len(b)])

LocalStarts == (0 - 1)..(MaxOps * MaxLen + 1)

DoInsertLocal ==
  \E start \in LocalStarts, length \in 0..MaxLen :
    /\ nOps <= MaxLocalOps
    /\ ~err
    /\ start <= LocalLength(bst) + 1
    /\ env' = InsertLocal(bst, start, length)
    /\ UNCHANGED <<varsA, log, varsB>>

DoInsertEnvelope ==
  \E br \in Branches :
    /\ env.kind = "returned"
    /\ docok
    /\ StepCall(Call("insert", br, env.left, env.right,
                     NewBetween(br, env.length, env.left, env.right),
                     env.length, env.clk))
    /\ env' = [env EXCEPT !.kind = "applied"]
    /\ UNCHANGED <<log, varsB>>

LocalInsertLogoot == nOps < MaxLocalOps /\ DoInsertLogoot

LocalRemoveLogoot == nOps < MaxLocalOps /\ DoRemoveLogoot

NextLocal ==
  LocalInsertLogoot \/ LocalRemoveLogoot \/ DoInsertLocal \/ DoInsertEnvelope

SpecLocal == Init /\ [][NextLocal]_vars

\* ------------------------------------------------------------------------
\* A removal and a nested insertion: both replicas apply the same calls
\* first, then the first replica originates a removeLogoot over positions it
\* holds and an insertLogoot between two neighbouring positions, and the
\* second replica receives the two in an order of its own
\* ------------------------------------------------------------------------
Positions(b) == UNION {Covered(b[i]) : i \in 1..Len(b)}

SetUp ==
  \E br \in Branches, lr \in InsPairs, length \in Lengths, clk \in Clocks :
    /\ log = <<>>
    /\ nOps < MaxSetUpOps
    /\ StepCall(InsertCall(br, lr, length, clk))
    /\ bstB' = bst'
    /\ docB' = doc'
    /\ docokB' = docok'
    /\ errB' = err'
    /\ UNCHANGED <<log, seenB, env>>

OriginateRemoveOver ==
  \E start \in RemArgs, length \in Lengths, clk \in Clocks :
    /\ RunOf(RemoveCall(start, length, clk)) \subseteq Positions(bst)
    /\ \A i \in 1..Len(log) : log[i].kind # "remove"
    /\ Originate(RemoveCall(start, length, clk))

OriginateInsertBetween ==
  \E br \in Branches, p \in PosArgs, length \in Lengths, clk \in Clocks :
    /\ \A i \in 1..Len(log) : log[i].kind # "insert"
    /\ Originate(InsertCall(br, <<p, OffsetLowest(p, 1)>>, length, clk))

NextNest == SetUp \/ OriginateRemoveOver \/ OriginateInsertBetween \/ Deliver

SpecNest == Init /\ [][NextNest]_vars

\* ------------------------------------------------------------------------
\* A removeLogoot repeated with identical arguments after MaxOps calls
\* ------------------------------------------------------------------------
ReplayRemoveLogoot ==
  LET r == Apply(bst, last)
      d == ApplyOps([doc |-> doc, ok |-> docok], r.ops, last.start)
  IN /\ nOps = MaxOps /\ ~err /\ last.kind = "remove"
     /\ bst' = r.bst
     /\ ops' = r.ops
     /\ err' = r.err
     /\ doc' = d.doc
     /\ docok' = d.ok
     /\ nOps' = nOps + 1
     /\ last' = last
     /\ pre' = bst
     /\ preDoc' = doc
     /\ replay' = TRUE
     /\ env' = NoEnvelope
     /\ UNCHANGED <<log, varsB>>

NextReplay == DoInsertLogoot \/ DoRemoveLogoot \/ ReplayRemoveLogoot

SpecReplay == Init /\ [][NextReplay]_vars

\* both replicas have received the same calls and neither call threw
SameCalls == seenB = 1..Len(log) /\ ~err /\ ~errB

\* ------------------------------------------------------------------------
\* The checks of selfTest (lines 798-858) as state predicates
\* ------------------------------------------------------------------------
LdocContiguous(b) ==
  \A i \in 1..Len(b) :
    LdocStart(b[i]) = IF i = 1 THEN 0 ELSE LdocEnd(b[i - 1])

LogootOrdered(b) ==
  \A i \in 1..(Len(b) - 1) : Lt(b[i].logoot_start, b[i + 1].logoot_start)

TightAnchors(b) ==
  \A i \in 1..Len(b) :
    /\ Lteq(b[i].left_anchor, b[i].logoot_start)
    /\ Gteq(b[i].right_anchor, LogootEnd(b[i]))

\* ------------------------------------------------------------------------
\* Properties
\* ------------------------------------------------------------------------
NoOverlap(b) ==
  \A i, j \in 1..Len(b) : i # j => Covered(b[i]) \cap Covered(b[j]) = {}
Occurrences(d, p) == Cardinality({i \in 1..Len(d) : d[i] = p})
HasNested(b) == \E i \in 1..Len(b) : Len(b[i].logoot_start) > 1
HasType(b, t) == \E i \in 1..Len(b) : b[i].type = t

\* C1: two replicas that received the same set of calls, in whatever order,
\* hold the same BST: same nodes in the same order with the same type, clk,
\* anchors and conflict_with
C1_Convergence == SameCalls => View(bst) = View(bstB)

\* C2: two replicas that received the same set of calls, in whatever order,
\* and applied the returned operations hold the same local document
C2_DocumentConvergence == (SameCalls /\ docok /\ docokB) => doc = docB

\* C3: an insertLogoot repeated with identical arguments right after the
\* first call leaves the BST as the first call left it
C3_ReplayKeepsState ==
  (replay /\ last.kind = "insert" /\ ~err) => View(bst) = View(pre)

CancellingPairs(o) ==
  /\ Len(o) % 2 = 0
  /\ \A k \in 1..Len(o) :
       k % 2 = 1 =>
         /\ o[k].type = "r" /\ o[k + 1].type = "i"
         /\ o[k].start = o[k + 1].start /\ o[k].length = o[k + 1].length

OpsFor(id, t) == {j \in 1..Len(ops) : ops[j].node = id /\ ops[j].type = t}

\* a tombstone under the run of a newer insertLogoot becomes DATA with the
\* clk of the call, and an insert operation puts its elements into the
\* document
Resurrected ==
  \A i \in 1..Len(pre) : \A p \in Covered(pre[i]) \cap RunOf(last) :
    (last.kind = "insert" /\ pre[i].type = "REMOVAL" /\
     last.clk > pre[i].clk) =>
      \E j \in 1..Len(bst) :
        /\ p \in Covered(bst[j])
        /\ bst[j].type = "DATA" /\ bst[j].clk = last.clk
        /\ \E k \in OpsFor(bst[j].id, "i") : ops[k].length = bst[j].length
        /\ Occurrences(doc, p) >= 1

\* a node under the run of an older call keeps type and clk, and no
\* operation is pushed for it
Absorbed ==
  \A i \in 1..Len(pre) : \A p \in Covered(pre[i]) \cap RunOf(last) :
    (last.kind \in {"insert", "remove"} /\ last.clk < pre[i].clk) =>
      \E j \in 1..Len(bst) :
        /\ p \in Covered(bst[j])
        /\ bst[j].type = pre[i].type /\ bst[j].clk = pre[i].clk
        /\ OpsFor(bst[j].id, "i") \cup OpsFor(bst[j].id, "r") = {}

\* C5: last writer wins by clock: a newer insertLogoot over a tombstone
\* resurrects it, and a call older than a node it covers is absorbed
C5_LastWriterWins == ~err => (Resurrected /\ Absorbed)

\* a tombstone of clk 0 that the last call, an insertLogoot of clk 1 over the
\* same positions, turned into DATA
C5_Witness ==
  /\ ~err /\ last.kind = "insert" /\ last.clk = 1
  /\ \E i \in 1..Len(pre) :
       /\ pre[i].type = "REMOVAL" /\ pre[i].clk = 0
       /\ Covered(pre[i]) \subseteq RunOf(last)
       /\ \E j \in 1..Len(bst) :
            bst[j].logoot_start = pre[i].logoot_start /\
            bst[j].type = "DATA" /\ bst[j].clk = 1

\* C6: after every returned call each node's ldoc_start is the sum of the
\* ldoc_length of its in-order predecessors (the first node starts at 0)
I2_LocalOffsets == ~err => LdocContiguous(bst)

I4_ConflictSets ==
  ~err =>
    \A i, j \in 1..Len(bst) :
      Lt(bst[i].logoot_start, bst[j].logoot_start) =>
        /\ (bst[i].id \in bst[j].conflict_with) <=>
             (TrueRight(bst[i]) = DocEnd \/
              Gt(TrueRight(bst[i]), bst[j].logoot_start))
        /\ (bst[j].id \in bst[i].conflict_with) <=>
             (TrueLeft(bst[j]) = DocStart \/
              Lt(TrueLeft(bst[j]), LogootEnd(bst[i])))

\* C9: after every returned call every node has left_anchor <= logoot_start
\* and right_anchor >= logoot_end
I5_TightAnchors == ~err => TightAnchors(bst)

\* C10: every node stored in the BST has length >= 1 and none is a DUMMY
I3_NonEmptyNodes ==
  \A i \in 1..Len(bst) : bst[i].length >= 1 /\ bst[i].type # "DUMMY"

\* an insertLogoot that added two nodes to the BST (split halves, gap nodes)
I3_Witness ==
  /\ ~err /\ last.kind = "insert"
  /\ Len(bst) >= Len(pre) + 2
  /\ I3_NonEmptyNodes

\* ------------------------------------------------------------------------
\* insertLocal
\* ------------------------------------------------------------------------
\* the tombstones at local offset `start`: they have no local length
TombstonesAt(b, start) ==
  {i \in 1..Len(b) : b[i].type # "DATA" /\ LdocStart(b[i]) = start}

\* the tombstones that share their ldoc_start with the node nearest before
\* `start` or with the node nearest at or after `start`
TombstonesNear(b, start) ==
  {i \in 1..Len(b) :
     /\ b[i].type # "DATA"
     /\ IF LdocStart(b[i]) < start
        THEN \A j \in 1..Len(b) :
               LdocStart(b[j]) < start => LdocStart(b[j]) <= LdocStart(b[i])
        ELSE \A j \in 1..Len(b) :
               LdocStart(b[j]) >= start => LdocStart(b[j]) >= LdocStart(b[i])}

ClockAbove(b, S) ==
  IF S = {} THEN 0
  ELSE 1 + (CHOOSE m \in {b[i].clk : i \in S} : \A i \in S : b[i].clk <= m)

\* C11 as stated, for a start inside the document: the returned clk is 1 + the
\* greatest clk of the tombstones at local offset start, or 0
C11_ClockAtPosition ==
  (env.kind = "returned" /\ env.start <= LocalLength(bst)) =>
    env.clk = ClockAbove(bst, TombstonesAt(bst, env.start))

\* C11: the returned clk is 1 + the greatest clk of the tombstones that share
\* their ldoc_start with the nearest node before start or with the nearest
\* node at or after start, or 0; it is greater than the clk of every
\* tombstone at local offset start
C11_ClockAboveNearest ==
  env.kind = "returned" =>
    /\ env.clk = ClockAbove(bst, TombstonesNear(bst, env.start))
    /\ \A i \in TombstonesAt(bst, env.start) : env.clk > bst[i].clk

\* insertLocal returned at an offset that holds a tombstone of clk 1
C11_Witness ==
  /\ env.kind = "returned" /\ env.clk = 2
  /\ \E i \in TombstonesAt(bst, env.start) : bst[i].clk = 1

DataInside(b, start) ==
  {i \in 1..Len(b) : b[i].type = "DATA" /\ LdocStart(b[i]) < start /\
                     start < LdocEnd(b[i])}

DataEndingAt(b, start) ==
  {i \in 1..Len(b) : b[i].type = "DATA" /\ LdocEnd(b[i]) = start}

DataBeginningAt(b, start) ==
  {i \in 1..Len(b) : b[i].type = "DATA" /\ LdocStart(b[i]) = start}

\* C12: for a start inside the document insertLocal returns; strictly inside
\* a DATA node d it returns left = right = the position of d at start,
\* otherwise left is the logoot_end of the DATA node ending at start and right
\* the logoot_start of the DATA node beginning at start (none: undefined)
C12_PointInsertion ==
  (env.kind \in {"returned", "InternalError"} /\
   env.start <= LocalLength(bst)) =>
    /\ env.kind = "returned"
    /\ IF DataInside(bst, env.start) # {}
       THEN \E i \in DataInside(bst, env.start) :
              /\ env.left = OffsetLowest(bst[i].logoot_start,
                                         env.start - LdocStart(bst[i]))
              /\ env.right = env.left
       ELSE /\ IF DataEndingAt(bst, env.start) = {} THEN env.left = None
               ELSE \E i \in DataEndingAt(bst, env.start) :
                      env.left = LogootEnd(bst[i])
            /\ IF DataBeginningAt(bst, env.start) = {} THEN env.right = None
               ELSE \E i \in DataBeginningAt(bst, env.start) :
                      env.right = bst[i].logoot_start

\* C13: insertLogoot on the envelope of insertLocal(start, length), with
\* start inside the document, returns operations that put the `length` new
\* elements, in order, at local offset start and leave the rest as it was
C13_LocalRoundTrip ==
  (env.kind = "applied" /\ env.start <= Len(preDoc)) =>
    /\ ~err
    /\ docok
    /\ doc = SubSeq(preDoc, 1, env.start)
             \o AsSeq([k \in 1..env.length |->
                         OffsetLowest(last.start, k - 1)])
             \o SubSeq(preDoc, env.start + 1, Len(preDoc))

\* C14: insertLocal throws its argument error exactly when start < 0 or
\* length <= 0, and no call of it, thrown or returned, changes the BST
C14_ArgumentErrors ==
  [][(env' # env /\ env'.kind \in {"returned", "TypeError", "InternalError"})
       => /\ bst' = bst
          /\ (env'.kind = "TypeError") <=>
               (env'.start < 0 \/ env'.length <= 0)]_vars

\* insertLocal threw for a length of 0 on a model that holds nodes
C14_Witness ==
  env.kind = "TypeError" /\ env.start >= 0 /\ env.length = 0 /\ bst # <<>>

\* ------------------------------------------------------------------------
\* removeLogoot
\* ------------------------------------------------------------------------
\* position q lies in the range [start, start + length) of the call
InRemoval(call, q) ==
  Lteq(call.start, q) /\ Lt(q, OffsetLowest(call.start, call.length))

\* the positions of the earlier BST that the removal `call` takes
Taken(call, b) ==
  UNION {{q \in Covered(b[i]) : InRemoval(call, q)} :
           i \in {k \in 1..Len(b) : b[k].clk <= call.clk /\
                    Len(b[k].logoot_start) = Len(call.start)}}

DataPositions(b) ==
  UNION {Covered(b[i]) : i \in {k \in 1..Len(b) : b[k].type = "DATA"}}

\* C15: removeLogoot turns into REMOVAL with the clk of the call exactly the
\* positions of the range whose node has clk <= the call's and as many levels
\* as start, and returns one remove(ldoc_start, length) for each node that
\* was DATA; every other position keeps type and clk
C15_RemovalGate ==
  (~err /\ last.kind = "remove") =>
    /\ \A i \in 1..Len(pre) : \A q \in Covered(pre[i]) :
         /\ \E j \in 1..Len(bst) : q \in Covered(bst[j])
         /\ \A j \in 1..Len(bst) :
              q \in Covered(bst[j]) =>
                IF q \in Taken(last, pre)
                THEN bst[j].type = "REMOVAL" /\ bst[j].clk = last.clk
                ELSE bst[j].type = pre[i].type /\ bst[j].clk = pre[i].clk
    /\ \A k \in 1..Len(ops) : ops[k].type = "r"
    /\ \A j \in 1..Len(bst) :
         IF Covered(bst[j]) \subseteq (Taken(last, pre) \cap DataPositions(pre))
         THEN /\ Cardinality(OpsFor(bst[j].id, "r")) = 1
              /\ \A k \in OpsFor(bst[j].id, "r") :
                   /\ ops[k].length = bst[j].length
                   /\ ops[k].start = LdocStart(bst[j])
         ELSE OpsFor(bst[j].id, "r") = {}

\* a removal that took a node of its range and left a node of the range
\* alone, either for its higher clk or for its deeper level
C15_Witness ==
  /\ ~err /\ last.kind = "remove" /\ ops # <<>>
  /\ \E i \in 1..Len(pre) : \E q \in Covered(pre[i]) :
       /\ InRemoval(last, q) /\ q \notin Taken(last, pre)
       /\ Len(pre[i].logoot_start) > Len(last.start)
  /\ C15_RemovalGate

\* ------------------------------------------------------------------------
\* Concurrent insertions
\* ------------------------------------------------------------------------
\* in BST `b` every position of run X lies in a node before the node of every
\* position of run Y, and the two nodes name each other in conflict_with
RunPrecedes(b, X, Y) ==
  \A p \in X : \A q \in Y :
    \E i, j \in 1..Len(b) :
      /\ p \in Covered(b[i]) /\ q \in Covered(b[j])
      /\ i < j
      /\ b[i].id \in b[j].conflict_with
      /\ b[j].id \in b[i].conflict_with

\* in document `d` every element of X comes before every element of Y
DocPrecedes(d, X, Y) ==
  \A p \in X : \A q \in Y :
    \E i, j \in 1..Len(d) : d[i] = p /\ d[j] = q /\ i < j

\* the two logged calls are insertions between the same neighbours on
\* branches of different rank; the first names the lower branch
ConcurrentPair(x, y) ==
  /\ x.kind = "insert" /\ y.kind = "insert"
  /\ x.left = y.left /\ x.right = y.right
  /\ x.br < y.br

\* C16: two insertLogoot calls between the same neighbours on branches X and
\* Y with rank(X) < rank(Y), applied in either order, leave the X run before
\* the Y run in the BST and in the document, each node in the other's
\* conflict_with
C16_ConcurrentInserts ==
  (SameCalls /\ Len(log) = 2) =>
    \A a, b \in 1..2 :
      ConcurrentPair(log[a], log[b]) =>
        /\ RunPrecedes(bst, RunOf(log[a]), RunOf(log[b]))
        /\ RunPrecedes(bstB, RunOf(log[a]), RunOf(log[b]))
        /\ docok => DocPrecedes(doc, RunOf(log[a]), RunOf(log[b]))
        /\ docokB => DocPrecedes(docB, RunOf(log[a]), RunOf(log[b]))

\* ------------------------------------------------------------------------
\* A removal and an insertion nested in its run
\* ------------------------------------------------------------------------
\* the run of insertion i lies one level below a position of removal r
NestedIn(i, r) ==
  /\ i.kind = "insert" /\ r.kind = "remove"
  /\ Len(i.start) > Len(r.start)
  /\ SubSeq(i.start, 1, Len(r.start)) \in RunOf(r)

AllData(b, X) ==
  \A p \in X : \E j \in 1..Len(b) : p \in Covered(b[j]) /\ b[j].type = "DATA"

\* C17: a removeLogoot over a run and an insertLogoot nested in that run,
\* applied in either order to the same state, give the same BST node by node,
\* and the nested run is DATA in both
C17_NestedCommutes ==
  (SameCalls /\ Len(log) = 2) =>
    \A a, b \in 1..2 :
      NestedIn(log[a], log[b]) =>
        /\ View(bst) = View(bstB)
        /\ AllData(bst, RunOf(log[a]))
        /\ AllData(bstB, RunOf(log[a]))

\* ------------------------------------------------------------------------
\* Anchors, conflict sets and operations after a call
\* ------------------------------------------------------------------------
\* C18 (as stated): a node that is in the BST before and after a call has a
\* left_anchor that did not move down and a right_anchor that did not move up
C18_AnchorsNeverWiden ==
  \A i \in 1..Len(pre) : \A j \in 1..Len(bst) :
    bst[j].id = pre[i].id =>
      /\ Gteq(bst[j].left_anchor, pre[i].left_anchor)
      /\ Lteq(bst[j].right_anchor, pre[i].right_anchor)

WidenedRight(i, j) ==
  bst[j].id = pre[i].id /\ ~Lteq(bst[j].right_anchor, pre[i].right_anchor)

WidenedLeft(i, j) ==
  bst[j].id = pre[i].id /\ ~Gteq(bst[j].left_anchor, pre[i].left_anchor)

\* C18: an anchor of a persisting node widens across a call only onto the
\* far boundary of a tombstone: a widened right_anchor is the logoot_end of a
\* non-DATA node, a widened left_anchor is the logoot_start of a non-DATA node
C18_WidenOnlyOverTombstones ==
  \A i \in 1..Len(pre) : \A j \in 1..Len(bst) :
    /\ WidenedRight(i, j) =>
         \E k \in 1..Len(bst) :
           bst[k].type # "DATA" /\ bst[j].right_anchor = LogootEnd(bst[k])
    /\ WidenedLeft(i, j) =>
         \E k \in 1..Len(bst) :
           bst[k].type # "DATA" /\ bst[j].left_anchor = bst[k].logoot_start

C18_Witness ==
  /\ \E i \in 1..Len(pre) : \E j \in 1..Len(bst) : WidenedRight(i, j)
  /\ \E i \in 1..Len(pre) : \E j \in 1..Len(bst) : WidenedLeft(i, j)

\* C19: p is in n.conflict_with iff n is in p.conflict_with
C19_ConflictSymmetry ==
  \A i, j \in 1..Len(bst) :
    (bst[i].id \in bst[j].conflict_with) <=>
      (bst[j].id \in bst[i].conflict_with)

\* C20: no call throws a FatalError; every returned operation has start >= 0
\* and length > 0, every insert has offset >= 0 and offset + length <= the
\* length argument, and removeLogoot returns removes only
C20_OperationValidity ==
  /\ ~err
  /\ \A k \in 1..Len(ops) :
       /\ ops[k].start >= 0
       /\ ops[k].length > 0
       /\ ops[k].type = "i" =>
            (ops[k].offset >= 0 /\ ops[k].offset + ops[k].length <= last.length)
       /\ last.kind = "remove" => ops[k].type = "r"


\* ------------------------------------------------------------------------
\* The local document against the BST
\* ------------------------------------------------------------------------
RECURSIVE DataLength(_)
DataLength(b) ==
  IF b = <<>> THEN 0
  ELSE (IF Head(b).type = "DATA" THEN Head(b).length ELSE 0) +
       DataLength(Tail(b))

\* the element at local offset i is position p of the DATA node over i
ElementOf(b, i, p) ==
  \E j \in 1..Len(b) :
    /\ b[j].type = "DATA"
    /\ LdocStart(b[j]) <= i /\ i < LdocEnd(b[j])
    /\ p = OffsetLowest(b[j].logoot_start, i - LdocStart(b[j]))

\* C21: after every returned call all operations applied so far were in
\* bounds, the document is as long as the DATA nodes together, and the
\* element at offset i is the position logoot_start.offsetLowest(i -
\* ldoc_start) of the DATA node with ldoc_start <= i < ldoc_end
C21_DocumentAgreement ==
  ~err =>
    /\ docok
    /\ Len(doc) = DataLength(bst)
    /\ \A i \in 0..(Len(doc) - 1) : ElementOf(bst, i, doc[i + 1])


\* ------------------------------------------------------------------------
\* The endpoints of the conflict propagation of the last insertLogoot
\* ------------------------------------------------------------------------
EndpointsOfLast == Apply(pre, last).endpoints
StartOf(id) == bst[Idx(bst, id)].logoot_start

LowestFilled(g, id) ==
  \A k \in 1..Len(g.filled) : Lteq(StartOf(id), StartOf(g.filled[k]))

HighestFilled(g, id) ==
  \A k \in 1..Len(g.filled) : Gteq(StartOf(id), StartOf(g.filled[k]))

\* C22: when an insertLogoot filled two or more nodes, the node added to the
\* conflict_with of the nc_left nodes, and the node the clearing of
\* anchor_left starts from, is the filled node with the lowest logoot_start;
\* the node added for nc_right, and the start of the clearing of anchor_right,
\* is the filled node with the highest logoot_start
C22_ConflictEndpoints ==
  (last.kind = "insert" /\ ~err) =>
    LET g == EndpointsOfLast
    IN Len(g.filled) >= 2 =>
         /\ g.nc_left # <<>> => LowestFilled(g, g.left_node)
         /\ g.nc_right # <<>> => HighestFilled(g, g.right_node)
         /\ g.anchor_left # NoNode => LowestFilled(g, g.left_node)
         /\ g.anchor_right # NoNode => HighestFilled(g, g.right_node)


\* ------------------------------------------------------------------------
\* Positions and clocks over time
\* ------------------------------------------------------------------------
AllCovered(b) == UNION {Covered(b[i]) : i \in 1..Len(b)}

\* C23: every logical position a node covered before a call is covered by a
\* node after it (so the covered set only grows from call to call), and the
\* BST holds no DUMMY node after a call
C23_TombstonesPersist ==
  /\ AllCovered(pre) \subseteq AllCovered(bst)
  /\ \A i \in 1..Len(bst) : bst[i].type # "DUMMY"

\* a removeLogoot that split a node and left a tombstone, all positions kept
C23_Witness ==
  /\ ~err /\ last.kind = "remove"
  /\ Len(bst) > Len(pre) /\ HasType(bst, "REMOVAL")
  /\ AllCovered(pre) # {}
  /\ C23_TombstonesPersist


\* node j of the BST was re-typed by the last call: its type changed, or the
\* call pushed an operation for it
Retyped(i, j) ==
  \/ bst[j].type # pre[i].type
  \/ OpsFor(bst[j].id, "i") \cup OpsFor(bst[j].id, "r") # {}

\* C24: the clk of the node over a logical position never decreases across
\* a call, and a position the call re-typed has the clk of the call
C24_ClockMonotone ==
  \A i \in 1..Len(pre) : \A j \in 1..Len(bst) :
    Covered(pre[i]) \cap Covered(bst[j]) # {} =>
      /\ bst[j].clk >= pre[i].clk
      /\ Retyped(i, j) => bst[j].clk = last.clk

\* a removeLogoot of clk 1 that split a node of clk 0: one half is a
\* tombstone of clk 1, the other half keeps clk 0
C24_Witness ==
  /\ ~err /\ last.kind = "remove" /\ last.clk = 1
  /\ \E i \in 1..Len(pre) : \E j, k \in 1..Len(bst) :
       /\ pre[i].clk = 0 /\ pre[i].type = "DATA"
       /\ j # k
       /\ Covered(bst[j]) \cup Covered(bst[k]) = Covered(pre[i])
       /\ bst[j].type = "REMOVAL" /\ bst[j].clk = 1
       /\ bst[k].type = "DATA" /\ bst[k].clk = 0
  /\ C24_ClockMonotone


\* ------------------------------------------------------------------------
\* removeLogoot twice
\* ------------------------------------------------------------------------
\* C25: a removeLogoot repeated with identical arguments right after the
\* first call leaves the BST as the first call left it (types, clocks,
\* anchors, conflict_with, ldoc_start) and returns no operation
C25_RemoveIdempotent ==
  (replay /\ last.kind = "remove" /\ ~err) =>
    (View(bst) = View(pre) /\ ops = <<>>)

\* a repeated removeLogoot over a tombstone the first call made, after
\* MaxOps calls, with DATA left in the BST
C25_Witness ==
  /\ replay /\ last.kind = "remove" /\ ~err /\ nOps = MaxOps + 1
  /\ HasType(bst, "DATA")
  /\ \E j \in 1..Len(bst) :
       /\ bst[j].type = "REMOVAL" /\ bst[j].clk = last.clk
       /\ Covered(bst[j]) \subseteq RunOf(last)
  /\ C25_RemoveIdempotent

====
